---- MODULE Spec2Model ----
(***************************************************************************)
(* A model of the HTML <-> JSON conversion utility: extractAttributes,     *)
(* htmlToJson and jsonToHtml.                                              *)
(*                                                                         *)
(* A JavaScript string is a sequence of one-character strings, so that     *)
(* indexOf, substring, trim and the regular expressions are computed       *)
(* character by character.  Positions are 0-based as in the source:        *)
(* position k of the source is element k + 1 of the sequence.              *)
(*                                                                         *)
(* A node is a record shaped as the object literal the source builds:      *)
(* [type, content] for text and comment, [type, tagName, attributes,       *)
(* children] for an element.  The attributes object is the sequence of its *)
(* own properties, [key, value], in the order for..in enumerates them.     *)
(***************************************************************************)
EXTENDS Integers, Sequences, FiniteSets, TLC

VARIABLES html, stack, pc, result, out, reparsed, tagString, lastIndex, attributes

vars == <<html, stack, pc, result, out, reparsed, tagString, lastIndex, attributes>>

(***************************************************************************)
(* Characters and the string methods the source calls.                     *)
(***************************************************************************)
LowerCase == <<"a", "b", "c", "d", "e", "f", "g", "h", "i", "j", "k", "l", "m",
               "n", "o", "p", "q", "r", "s", "t", "u", "v", "w", "x", "y", "z">>

UpperCase == <<"A", "B", "C", "D", "E", "F", "G", "H", "I", "J", "K", "L", "M",
               "N", "O", "P", "Q", "R", "S", "T", "U", "V", "W", "X", "Y", "Z">>

Digit == <<"0", "1", "2", "3", "4", "5", "6", "7", "8", "9">>

Range(s) == {s[k] : k \in DOMAIN s}

\* The character class [a-zA-Z0-9_-] of both regular expressions.
NameChar == Range(LowerCase) \cup Range(UpperCase) \cup Range(Digit) \cup {"_", "-"}

\* The characters String.prototype.trim removes and the class \s matches:
\* tab, line feed, vertical tab (U+000B), form feed, carriage return,
\* space, no-break space (U+00A0), ogham space mark (U+1680) and the byte
\* order mark (U+FEFF); the four named by code point stand in their
\* strings as the characters themselves.  The other characters of the class (U+2000 to
\* U+200A, U+2028, U+2029, U+202F, U+205F, U+3000) cannot be written in a
\* string of this module, so no string here holds one.
WhiteSpace == {" ", "\t", "\n", "\f", "\r", "", " ", " ", "﻿"}

SetMin(S) == CHOOSE x \in S : \A y \in S : x <= y

SetMax(S) == CHOOSE x \in S : \A y \in S : y <= x

Clamp(n, len) == IF n < 0 THEN 0 ELSE IF n > len THEN len ELSE n

\* String.prototype.substring(a, b): both ends clamped to 0..length and
\* swapped when a > b.
substring(s, a, b) ==
    LET ca == Clamp(a, Len(s))
        cb == Clamp(b, Len(s))
        lo == IF ca <= cb THEN ca ELSE cb
        hi == IF ca <= cb THEN cb ELSE ca
    IN  SubSeq(s, lo + 1, hi)

\* Whether pat occurs in s at 0-based position k.
OccursAt(s, pat, k) ==
    /\ k >= 0
    /\ k + Len(pat) <= Len(s)
    /\ \A j \in 1..Len(pat) : s[k + j] = pat[j]

\* String.prototype.indexOf(pat, from): the first position >= from where
\* pat occurs, -1 when there is none.
indexOf(s, pat, from) ==
    LET hits == {k \in Clamp(from, Len(s))..(Len(s) - Len(pat)) : OccursAt(s, pat, k)}
    IN  IF hits = {} THEN -1 ELSE SetMin(hits)

\* String.prototype.trim().
trim(s) ==
    LET keep == {k \in 1..Len(s) : s[k] \notin WhiteSpace}
    IN  IF keep = {} THEN <<>> ELSE SubSeq(s, SetMin(keep), SetMax(keep))

\* String.prototype.toLowerCase() (the letters A-Z; every other character
\* of the model's alphabet maps to itself).
toLowerCase(s) ==
    [k \in 1..Len(s) |->
        IF s[k] \in Range(UpperCase)
        THEN LowerCase[CHOOSE n \in 1..26 : UpperCase[n] = s[k]]
        ELSE s[k]]

\* String.prototype.endsWith(c) for a one-character c.
endsWith(s, c) == Len(s) > 0 /\ s[Len(s)] = c

\* The end of the run of characters of class S that starts at position p.
RunEnd(s, p, S) ==
    LET stops == {k \in p..(Len(s) - 1) : s[k + 1] \notin S}
    IN  IF stops = {} THEN (IF p > Len(s) THEN p ELSE Len(s)) ELSE SetMin(stops)

(***************************************************************************)
(* The attributes object: an ordinary JavaScript object used as a map.     *)
(***************************************************************************)
\* The longest array index, 2^32 - 2, digit by digit.
MaxArrayIndex == <<"4", "2", "9", "4", "9", "6", "7", "2", "9", "4">>

DigitValue(c) == (CHOOSE n \in 1..10 : Digit[n] = c) - 1

\* Lexicographic a <= b for digit strings of equal length.
DigitsLeq(a, b) ==
    \/ a = b
    \/ \E k \in 1..Len(a) :
          /\ \A j \in 1..(k - 1) : a[j] = b[j]
          /\ DigitValue(a[k]) < DigitValue(b[k])

\* A canonical array index: property keys of this form are enumerated
\* first, in ascending numeric order, whatever the insertion order.
IsArrayIndex(key) ==
    /\ Len(key) > 0
    /\ \A k \in 1..Len(key) : key[k] \in Range(Digit)
    /\ (Len(key) = 1 \/ key[1] /= "0")
    /\ \/ Len(key) < Len(MaxArrayIndex)
       \/ Len(key) = Len(MaxArrayIndex) /\ DigitsLeq(key, MaxArrayIndex)

\* Numeric a < b for two array indices.
IndexLess(a, b) ==
    \/ Len(a) < Len(b)
    \/ Len(a) = Len(b) /\ a /= b /\ DigitsLeq(a, b)

ProtoKey == <<"_", "_", "p", "r", "o", "t", "o", "_", "_">>

HasKey(obj, key) == \E k \in 1..Len(obj) : obj[k].key = key

GetKey(obj, key) == obj[CHOOSE k \in 1..Len(obj) : obj[k].key = key].value

KeysOf(obj) == {obj[k].key : k \in 1..Len(obj)}

\* attributes[key] = value on an object created as {}: an existing own
\* property keeps its place, a new one goes after the array indices below
\* it (an array index) or last (any other key); the key __proto__ reaches
\* the inherited setter, which ignores a string, and creates no property.
SetProperty(obj, key, value) ==
    IF key = ProtoKey THEN obj
    ELSE IF HasKey(obj, key)
    THEN [k \in 1..Len(obj) |->
            IF obj[k].key = key THEN [key |-> key, value |-> value] ELSE obj[k]]
    ELSE IF IsArrayIndex(key)
    THEN LET before == {k \in 1..Len(obj) :
                           IsArrayIndex(obj[k].key) /\ IndexLess(obj[k].key, key)}
             n == Cardinality(before)
         IN  SubSeq(obj, 1, n) \o <<[key |-> key, value |-> value]>>
                \o SubSeq(obj, n + 1, Len(obj))
    ELSE Append(obj, [key |-> key, value |-> value])

(***************************************************************************)
(* extractAttributes: the loop over attrRegex.exec.                        *)
(***************************************************************************)
\* One successful attrRegex.exec(s) with the regular expression's
\* lastIndex at `from`: the leftmost position >= from that starts a name,
\* the longest name there, then the optional  \s*=\s*('...'|"...")  part.
\* A record [found, key, value, quoted, start, end]; end is the new lastIndex.
AttrExec(s, from) ==
    LET starts == {k \in from..(Len(s) - 1) : s[k + 1] \in NameChar}
        start == SetMin(starts)
        nameEnd == RunEnd(s, start, NameChar)
        eq == RunEnd(s, nameEnd, WhiteSpace)
        q == RunEnd(s, eq + 1, WhiteSpace)
        hasEq == eq < Len(s) /\ s[eq + 1] = "="
        hasQuote == hasEq /\ q < Len(s) /\ s[q + 1] \in {"'", "\""}
        close == IF hasQuote THEN indexOf(s, <<s[q + 1]>>, q + 1) ELSE -1
    IN  IF starts = {}
        THEN [found |-> FALSE, key |-> <<>>, value |-> <<>>, quoted |-> FALSE,
              start |-> from, end |-> 0]
        ELSE IF close /= -1
        THEN [found |-> TRUE, key |-> substring(s, start, nameEnd),
              value |-> substring(s, q + 1, close), quoted |-> TRUE,
              start |-> start, end |-> close + 1]
        ELSE [found |-> TRUE, key |-> substring(s, start, nameEnd),
              value |-> <<>>, quoted |-> FALSE,
              start |-> start, end |-> nameEnd]

RECURSIVE AttrLoop(_, _, _)
AttrLoop(s, from, obj) ==
    LET m == AttrExec(s, from)
    IN  IF m.found THEN AttrLoop(s, m.end, SetProperty(obj, m.key, m.value))
        ELSE obj

extractAttributes(s) == AttrLoop(s, 0, <<>>)

(***************************************************************************)
(* htmlToJson: one iteration of the main parsing loop.                     *)
(***************************************************************************)
TextNode(content) == [type |-> "text", content |-> content]

CommentNode(content) == [type |-> "comment", content |-> content]

ElementNode(tagName, attrs, children) ==
    [type |-> "element", tagName |-> tagName, attributes |-> attrs,
     children |-> children]

\* nodes.push({ type: 'text', content: t }) guarded by t.length > 0, for
\* t the trimmed text: the nodes pushed, none or one.
TextIfAny(s) == IF Len(trim(s)) > 0 THEN <<TextNode(trim(s))>> ELSE <<>>

VoidTags == {<<"b", "r">>, <<"i", "m", "g">>, <<"i", "n", "p", "u", "t">>,
             <<"l", "i", "n", "k">>, <<"m", "e", "t", "a">>, <<"h", "r">>,
             <<"s", "o", "u", "r", "c", "e">>, <<"a", "r", "e", "a">>}

\* isSelfClosing without the list of void tag names.
isSelfClosingSlashOnly(fullTagContent, tagName) == endsWith(fullTagContent, "/")

\* The parser's isSelfClosing: an explicit trailing '/' or a void tag name.
isSelfClosing(fullTagContent, tagName) ==
    endsWith(fullTagContent, "/") \/ tagName \in VoidTags

\* The serializer's list with 'br' missing.
isSelfClosingTagNoBr(tagName) == tagName \in VoidTags \ {<<"b", "r">>}

\* The serializer's isSelfClosing: its own copy of the void tag names.
isSelfClosingTag(tagName) == tagName \in VoidTags

\* consume without its  index += length.
consumeStuck(index, length) == index

\* consume(length) with the cursor at index: the cursor afterwards.
consume(index, length) == index + length

\* The raw-text tag name mistyped.
ScriptTagMistyped == <<"s", "c", "r", "i", "p", "t", "s">>

ScriptTag == <<"s", "c", "r", "i", "p", "t">>

CommentOpen == <<"<", "!", "-", "-">>

CommentClose == <<"-", "-", ">">>

EndTagOf(tagName) == <<"<", "/">> \o tagName \o <<">">>

\* The closing tag searched from the end: the last occurrence.
EndTagIndexLast(h, tagName, from) ==
    LET hits == {k \in from..Len(h) : OccursAt(h, EndTagOf(tagName), k)}
    IN  IF hits = {} THEN -1 ELSE SetMax(hits)

\* endTagIndex = indexOf(endTag) with the cursor just after the opening tag.
EndTagIndex(h, tagName, from) == indexOf(h, EndTagOf(tagName), from)

\* The children of a script element with a closing tag: innerHTML as it
\* stands, unless it is empty or all white space.
ScriptChildren(innerHTML) ==
    IF Len(trim(innerHTML)) > 0 THEN <<TextNode(innerHTML)>> ELSE <<>>

Outcome(branch, pre, index, node, inner) ==
    [branch |-> branch, pre |-> pre, index |-> index, node |-> node,
     inner |-> inner]

\* The iteration of the while loop that starts with the cursor at i
\* (i < h.length), as a record:
\*   branch  the path taken through the loop body;
\*   pre     the text node pushed before the tag (none or one);
\*   index   the cursor when the iteration ends or, on the branch
\*           "recurse", when htmlToJson(innerHTML) is called;
\*   node    the node the tag itself pushes (none or one; on "recurse" the
\*           new element before its children are set);
\*   inner   innerHTML, the argument of the recursive call.
\* The loop body is followed from its end to its start: each operator is
\* the part of the body that begins where the constants named by its
\* parameters are known.

\* From  const innerHTML : the script branch or the recursion.
Inner(textBeforeTag, afterTag, newNode, innerHTML) ==
    IF newNode.tagName = ScriptTag
    THEN Outcome("script", textBeforeTag,
                 consume(consume(afterTag, Len(innerHTML)),
                         Len(EndTagOf(newNode.tagName))),
                 <<[newNode EXCEPT !.children = ScriptChildren(innerHTML)]>>,
                 <<>>)
    ELSE Outcome("recurse", textBeforeTag, afterTag, <<newNode>>, innerHTML)

\* From  const isSelfClosing : a leaf, or an element with an inner span.
\* afterTag is the cursor once the opening tag is consumed.
Paired(h, textBeforeTag, fullTagContent, afterTag, newNode, endTagIndex) ==
    IF isSelfClosing(fullTagContent, newNode.tagName) \/ endTagIndex = -1
    THEN Outcome("leaf", textBeforeTag, afterTag, <<newNode>>, <<>>)
    ELSE Inner(textBeforeTag, afterTag, newNode,
               substring(h, afterTag, endTagIndex))

\* From  const attributesString : attributes, endTagIndex and newNode.
Named(h, textBeforeTag, fullTagContent, tagName, afterTag) ==
    Paired(h, textBeforeTag, fullTagContent, afterTag,
           ElementNode(tagName,
                       extractAttributes(
                           trim(substring(fullTagContent, Len(tagName),
                                          Len(fullTagContent)))),
                       <<>>),
           EndTagIndex(h, tagName, afterTag))

\* From  const tagNameMatch : the tag name, lowercased, or no name.
Opening(h, index, textBeforeTag, tagEnd, fullTagContent) ==
    IF RunEnd(fullTagContent, 0, NameChar) = 0
    THEN Outcome("nameless", textBeforeTag, consume(index, 1), <<>>, <<>>)
    ELSE Named(h, textBeforeTag, fullTagContent,
               toLowerCase(substring(fullTagContent, 0,
                                     RunEnd(fullTagContent, 0, NameChar))),
               consume(index, tagEnd - index + 1))

\* From  if (tagEnd === -1) : the element branch.
Element(h, index, textBeforeTag, tagEnd) ==
    IF tagEnd = -1
    THEN Outcome("truncated", textBeforeTag, index, <<>>, <<>>)
    ELSE Opening(h, index, textBeforeTag, tagEnd,
                 trim(substring(h, index + 1, tagEnd)))

\* From  if (commentEnd !== -1) : the comment branch.  The content is
\* read with the cursor after consume(4).
CommentAt(h, index, textBeforeTag, commentEnd) ==
    IF commentEnd /= -1
    THEN Outcome("comment", textBeforeTag,
                 consume(consume(index, 4), commentEnd - consume(index, 4) + 3),
                 <<CommentNode(trim(substring(h, consume(index, 4), commentEnd)))>>,
                 <<>>)
    ELSE Outcome("badComment", textBeforeTag, consume(index, 1), <<>>, <<>>)

\* From  index = nextOpenBracket : the cursor is at a '<'.  The closing
\* consume(1) of the loop body is not a branch: the character after the
\* '<' either is '/' or is not.
AtBracket(h, index, textBeforeTag) ==
    IF index + 1 >= Len(h)
    THEN Outcome("lone", textBeforeTag, index, <<>>, <<>>)
    ELSE IF substring(h, index, index + 4) = CommentOpen
    THEN CommentAt(h, index, textBeforeTag, indexOf(h, CommentClose, index))
    ELSE IF h[index + 2] /= "/"
    THEN Element(h, index, textBeforeTag, indexOf(h, <<">">>, index))
    ELSE Outcome("closing", textBeforeTag, consume(index, 1), <<>>, <<>>)

\* From  if (nextOpenBracket === -1) : the text tail or a '<'.
Bracket(h, i, nextOpenBracket) ==
    IF nextOpenBracket = -1
    THEN Outcome("tail", TextIfAny(substring(h, i, Len(h))), Len(h), <<>>, <<>>)
    ELSE AtBracket(h, nextOpenBracket,
                   TextIfAny(substring(h, i, nextOpenBracket)))

Iteration(h, i) == Bracket(h, i, indexOf(h, <<"<">>, i))

BreakBranches == {"tail", "lone", "truncated"}

ContinueBranches == {"comment", "badComment", "nameless", "leaf", "script", "closing"}

RECURSIVE htmlToJson(_), ScanLoop(_, _, _)
\* The nodes returned once the iteration `it` has run with `nodes` pushed
\* before it.
ScanStep(h, nodes, it) ==
    IF it.branch \in BreakBranches THEN nodes \o it.pre
    ELSE IF it.branch = "recurse"
    THEN ScanLoop(h, consume(consume(it.index, Len(it.inner)),
                             Len(EndTagOf(it.node[1].tagName))),
                  nodes \o it.pre \o
                    <<[it.node[1] EXCEPT !.children = htmlToJson(it.inner)]>>)
    ELSE ScanLoop(h, it.index, nodes \o it.pre \o it.node)

\* The while loop from cursor i with `nodes` pushed so far.
ScanLoop(h, i, nodes) ==
    IF i >= Len(h) THEN nodes ELSE ScanStep(h, nodes, Iteration(h, i))

htmlToJson(h) == ScanLoop(h, 0, <<>>)

(***************************************************************************)
(* jsonToHtml.                                                             *)
(***************************************************************************)
RECURSIVE AttrString(_)
\* The for..in loop over node.attributes.
AttrString(obj) ==
    IF obj = <<>> THEN <<>>
    ELSE (IF Head(obj).value = <<>>
          THEN <<" ">> \o Head(obj).key
          ELSE <<" ">> \o Head(obj).key \o <<"=", "\"">> \o Head(obj).value \o <<"\"">>)
         \o AttrString(Tail(obj))

RECURSIVE jsonToHtml(_), jsonToHtmlNode(_)
\* jsonToHtml of a single node (the switch on node.type).
jsonToHtmlNode(node) ==
    IF node.type = "text" THEN node.content
    ELSE IF node.type = "comment"
    THEN CommentOpen \o <<" ">> \o node.content \o <<" ">> \o CommentClose
    ELSE IF node.type = "element"
    THEN <<"<">> \o node.tagName \o AttrString(node.attributes) \o <<">">>
         \o (IF isSelfClosingTag(node.tagName) THEN <<>>
             ELSE (IF Len(node.children) > 0 THEN jsonToHtml(node.children) ELSE <<>>)
                  \o EndTagOf(node.tagName))
    ELSE <<>>

\* jsonToHtml of an array: jsonNode.map(jsonToHtml).join('').
jsonToHtml(nodes) ==
    IF nodes = <<>> THEN <<>>
    ELSE jsonToHtmlNode(Head(nodes)) \o jsonToHtml(Tail(nodes))

(***************************************************************************)
(* The inputs: every concatenation of at most MaxFrags fragments.          *)
(***************************************************************************)
MaxFrags == 3

Fragments ==
    {<<"<", "p", ">">>, <<"<", "/", "p", ">">>,
     <<"<", "P", ">">>, <<"<", "/", "P", ">">>,
     <<"<", "p", "/", ">">>,
     <<"<", "b", "r", " ", "a", "=", "\"", "b", "\"", " ", "c", ">">>,
     <<"<", "/", "b", "r", ">">>,
     <<"<", "p", " ", "a", "=", "'", "\"", "'", ">">>,
     <<"<", "s", "c", "r", "i", "p", "t", ">">>,
     <<"<", "/", "s", "c", "r", "i", "p", "t", ">">>,
     CommentOpen, CommentClose,
     <<"x">>, <<" ">>, <<"<">>, <<">">>}

RECURSIVE Flatten(_)
Flatten(fs) == IF fs = <<>> THEN <<>> ELSE Head(fs) \o Flatten(Tail(fs))

\* The sequences of n fragments.
FragmentSeqs(n) == [1..n -> Fragments]

(***************************************************************************)
(* The parser as a state machine.  stack holds one frame per active call   *)
(* of htmlToJson, the innermost last: the call's argument html, its cursor *)
(* index, its nodes, whether its loop has not met a break (running), and   *)
(* the element whose children the call in progress computes (newNode,      *)
(* empty when no call is in progress).                                     *)
(***************************************************************************)
Frame(h) == [html |-> h, index |-> 0, nodes |-> <<>>, running |-> TRUE,
             newNode |-> <<>>]

Top == stack[Len(stack)]

\* The loop condition of the innermost call, with no break met.
InLoop(f) == f.running /\ f.index < Len(f.html)

Scanning == pc = "parse" /\ stack /= <<>> /\ InLoop(Top)

It == Iteration(Top.html, Top.index)

SetTop(f) == [stack EXCEPT ![Len(stack)] = f]

\* The iteration `it` ends the loop with break.
Break(it) ==
    /\ stack' = SetTop([Top EXCEPT !.index = it.index, !.nodes = @ \o it.pre,
                                   !.running = FALSE])
    /\ UNCHANGED <<html, pc, result, out, reparsed, tagString, lastIndex, attributes>>

\* The iteration `it` runs to its end or to a continue.
Continue(it) ==
    /\ stack' = SetTop([Top EXCEPT !.index = it.index,
                                   !.nodes = @ \o it.pre \o it.node])
    /\ UNCHANGED <<html, pc, result, out, reparsed, tagString, lastIndex, attributes>>

\* The iteration `it` consumes the opening tag and calls
\* htmlToJson(innerHTML).
Call(it) ==
    /\ stack' = Append(SetTop([Top EXCEPT !.index = it.index,
                                          !.nodes = @ \o it.pre,
                                          !.newNode = it.node]),
                       Frame(it.inner))
    /\ UNCHANGED <<html, pc, result, out, reparsed, tagString, lastIndex, attributes>>

TextTail ==
    /\ Scanning
    /\ It.branch = "tail"
    /\ Break(It)

LoneBracket ==
    /\ Scanning
    /\ It.branch = "lone"
    /\ Break(It)

TruncatedTag ==
    /\ Scanning
    /\ It.branch = "truncated"
    /\ Break(It)

Comment ==
    /\ Scanning
    /\ It.branch = "comment"
    /\ Continue(It)

MalformedComment ==
    /\ Scanning
    /\ It.branch = "badComment"
    /\ Continue(It)

NamelessTag ==
    /\ Scanning
    /\ It.branch = "nameless"
    /\ Continue(It)

LeafElement ==
    /\ Scanning
    /\ It.branch = "leaf"
    /\ Continue(It)

ScriptElement ==
    /\ Scanning
    /\ It.branch = "script"
    /\ Continue(It)

ClosingTag ==
    /\ Scanning
    /\ It.branch = "closing"
    /\ Continue(It)

CallChild ==
    /\ Scanning
    /\ It.branch = "recurse"
    /\ Call(It)

\* The recursive call returns: newNode.children is set, the inner content
\* and the closing tag are consumed, and newNode is pushed.
ReturnChild ==
    /\ pc = "parse"
    /\ Len(stack) > 1
    /\ ~InLoop(Top)
    /\ LET caller == stack[Len(stack) - 1]
           newNode == [caller.newNode[1] EXCEPT !.children = Top.nodes]
       IN  stack' = [SubSeq(stack, 1, Len(stack) - 1) EXCEPT ![Len(stack) - 1] =
                        [caller EXCEPT
                            !.index = consume(consume(@, Len(Top.html)),
                                              Len(EndTagOf(newNode.tagName))),
                            !.nodes = Append(@, newNode),
                            !.newNode = <<>>]]
    /\ UNCHANGED <<html, pc, result, out, reparsed, tagString, lastIndex, attributes>>

\* The outermost call returns nodes.
ReturnTop ==
    /\ pc = "parse"
    /\ Len(stack) = 1
    /\ ~InLoop(Top)
    /\ result' = Top.nodes
    /\ stack' = <<>>
    /\ pc' = "parsed"
    /\ UNCHANGED <<html, out, reparsed, tagString, lastIndex, attributes>>

\* htmlOutput = jsonToHtml(jsonOutput).
Serialize ==
    /\ pc = "parsed"
    /\ out' = jsonToHtml(result)
    /\ pc' = "serialized"
    /\ UNCHANGED <<html, stack, result, reparsed, tagString, lastIndex, attributes>>

\* The serialized document is parsed again.
Reparse ==
    /\ pc = "serialized"
    /\ reparsed' = htmlToJson(out)
    /\ pc' = "done"
    /\ UNCHANGED <<html, stack, result, out, tagString, lastIndex, attributes>>

Init ==
    /\ \E n \in 0..MaxFrags : \E fs \in FragmentSeqs(n) : html = Flatten(fs)
    /\ stack = <<Frame(html)>>
    /\ pc = "parse"
    /\ result = <<>>
    /\ out = <<>>
    /\ reparsed = <<>>
    /\ tagString = <<>>
    /\ lastIndex = 0
    /\ attributes = <<>>

Next ==
    \/ TextTail
    \/ LoneBracket
    \/ TruncatedTag
    \/ Comment
    \/ MalformedComment
    \/ NamelessTag
    \/ LeafElement
    \/ ScriptElement
    \/ ClosingTag
    \/ CallChild
    \/ ReturnChild
    \/ ReturnTop
    \/ Serialize
    \/ Reparse

Spec == Init /\ [][Next]_vars

(***************************************************************************)
(* extractAttributes as a state machine: one attrRegex.exec per step.      *)
(***************************************************************************)
MaxAttrFrags == 4

AttrFragments ==
    {<<"i", "d">>, <<"a">>, <<"=">>, <<"\"">>, <<"'">>, <<" ">>, <<"1">>, <<"2">>,
     ProtoKey}

\* The sequences of n attribute fragments.
AttrFragmentSeqs(n) == [1..n -> AttrFragments]

\* A match: attributes[key] = value.
ExecMatch ==
    /\ pc = "exec"
    /\ LET match == AttrExec(tagString, lastIndex)
       IN  /\ match.found
           /\ attributes' = SetProperty(attributes, match.key, match.value)
           /\ lastIndex' = match.end
    /\ UNCHANGED <<html, stack, pc, result, out, reparsed, tagString>>

\* exec returns null: the loop ends and attributes is returned.
ExecNull ==
    /\ pc = "exec"
    /\ ~AttrExec(tagString, lastIndex).found
    /\ lastIndex' = 0
    /\ pc' = "returned"
    /\ UNCHANGED <<html, stack, result, out, reparsed, tagString, attributes>>

InitAttrs ==
    /\ \E n \in 0..MaxAttrFrags : \E fs \in AttrFragmentSeqs(n) : tagString = Flatten(fs)
    /\ lastIndex = 0
    /\ attributes = <<>>
    /\ pc = "exec"
    /\ html = <<>>
    /\ stack = <<>>
    /\ result = <<>>
    /\ out = <<>>
    /\ reparsed = <<>>

NextAttrs == ExecMatch \/ ExecNull

SpecAttrs == InitAttrs /\ [][NextAttrs]_vars

\* The state machines compute what the operators compute.
MachineAgrees ==
    /\ pc \in {"parsed", "serialized", "done"} => result = htmlToJson(html)
    /\ pc = "returned" => attributes = extractAttributes(tagString)

(***************************************************************************)
(* What the properties speak of, stated without the parser's operators.    *)
(***************************************************************************)
\* The first position >= from at which pat occurs in h, -1 when none does.
FirstAt(h, pat, from) ==
    IF \E k \in from..Len(h) : OccursAt(h, pat, k)
    THEN CHOOSE k \in from..Len(h) :
            OccursAt(h, pat, k) /\ \A j \in from..(k - 1) : ~OccursAt(h, pat, j)
    ELSE -1

\* The text from position a up to, not including, position b.
Between(h, a, b) == IF a <= b THEN SubSeq(h, a + 1, b) ELSE <<>>

\* The tag the call with frame f meets next: the position of its '<' (pos)
\* and of the first '>' after it (gt), the trimmed text between them
\* (interior), the lower-cased name the interior starts with (name), and
\* the text node for what precedes the tag (text).
TagAt(f) ==
    LET pos == FirstAt(f.html, <<"<">>, f.index)
        gt == FirstAt(f.html, <<">">>, pos)
        interior == trim(Between(f.html, pos + 1, gt))
    IN  [pos |-> pos, gt |-> gt, interior |-> interior,
         name |-> toLowerCase(SubSeq(interior, 1, RunEnd(interior, 0, NameChar))),
         text |-> TextIfAny(Between(f.html, f.index, pos))]

\* The call with frame f is about to handle an opening tag <name ...>.
AtOpeningTag(f) ==
    /\ InLoop(f)
    /\ TagAt(f).pos /= -1
    /\ TagAt(f).pos + 1 < Len(f.html)
    /\ ~OccursAt(f.html, CommentOpen, TagAt(f).pos)
    /\ f.html[TagAt(f).pos + 2] /= "/"
    /\ TagAt(f).gt /= -1
    /\ TagAt(f).name /= <<>>

\* The step leaves the depth of the stack alone and pushes, after the text
\* before the tag, exactly one node.
PushesOne(f) ==
    /\ Len(stack') = Len(stack)
    /\ Len(stack'[Len(stack)].nodes) = Len(f.nodes) + Len(TagAt(f).text) + 1
    /\ SubSeq(stack'[Len(stack)].nodes, 1, Len(f.nodes) + Len(TagAt(f).text))
          = f.nodes \o TagAt(f).text

Pushed == stack'[Len(stack)].nodes[Len(stack'[Len(stack)].nodes)]

RECURSIVE AllNodes(_)
\* Every node of a forest.
AllNodes(nodes) ==
    IF nodes = <<>> THEN {}
    ELSE {Head(nodes)}
         \cup (IF Head(nodes).type = "element" THEN AllNodes(Head(nodes).children) ELSE {})
         \cup AllNodes(Tail(nodes))

(***************************************************************************)
(* C2                                                                      *)
(***************************************************************************)
C2_CursorInBounds ==
    \A k \in 1..Len(stack) : stack[k].index >= 0 /\ stack[k].index <= Len(stack[k].html)

C2_StepAdvances ==
    pc = "parse" /\ stack /= <<>> =>
        LET d == Len(stack)
        IN  /\ \A k \in 1..d : k <= Len(stack') =>
                  stack'[k].index >= stack[k].index /\ stack'[k].html = stack[k].html
            /\ InLoop(Top) =>
                  \/ /\ Len(stack') = d
                     /\ stack'[d].index > stack[d].index \/ ~stack'[d].running
                  \/ /\ Len(stack') = d + 1
                     /\ stack'[d].index > stack[d].index
                     /\ stack'[d + 1].index = 0
                     /\ Len(stack'[d + 1].html) < Len(stack[d].html)
            /\ ~InLoop(Top) => Len(stack') = d - 1

RECURSIVE C2_Remaining(_)
\* What the calls on the stack s have left to do: twice the characters each
\* still has to scan, those of the span handed to its callee counted once,
\* in the callee, plus one for each loop that has not met a break.
C2_Remaining(s) ==
    IF s = <<>> THEN 0
    ELSE LET n == Len(s)
             f == s[n]
         IN  2 * (Len(f.html) - f.index) + (IF f.running THEN 1 ELSE 0)
             + (IF n > 1 THEN C2_Remaining(SubSeq(s, 1, n - 1)) - 2 * Len(f.html) ELSE 0)

\* While htmlToJson runs a step is possible and changes the state: a call
\* whose loop has ended returns, and an iteration takes one of the paths
\* through the loop body and either ends the loop or moves the cursor on.
C2_NeverStuck ==
    pc = "parse" =>
        /\ stack /= <<>>
        /\ InLoop(Top) =>
              /\ It.branch \in BreakBranches \cup ContinueBranches \cup {"recurse"}
              /\ It.branch \in BreakBranches \/ It.index > Top.index

\* C2: htmlToJson terminates on every input (while it runs a step is always
\* possible, and every step that does not return the result lowers
\* C2_Remaining, a natural number); every iteration of the scanning loop
\* advances the cursor by at least one character or leaves the loop, no
\* cursor moves backwards or passes the end of its input, and every
\* recursive call is on a span strictly shorter than the caller's input.
C2_ProgressAndTermination ==
    /\ [](C2_CursorInBounds /\ C2_NeverStuck /\ C2_Remaining(stack) >= 0)
    /\ [][C2_StepAdvances]_vars
    /\ [][pc = "parse" => pc' = "parsed" \/ C2_Remaining(stack') < C2_Remaining(stack)]_vars

\* A recursive call is in progress and its cursor has advanced.
C2_Witness == pc = "parse" /\ Len(stack) = 2 /\ stack[2].index > 0

(***************************************************************************)
(* C3                                                                      *)
(***************************************************************************)
\* At an opening tag that is neither void nor explicitly self-closed.
AtPairable(f) ==
    /\ AtOpeningTag(f)
    /\ TagAt(f).name \notin VoidTags
    /\ ~endsWith(TagAt(f).interior, "/")

RawTextName == <<"s", "c", "r", "i", "p", "t">>

\* The step taken at such a tag.  With the literal closing tag somewhere
\* after the opening tag, either the recursive call starts on the text up to
\* its first occurrence, or the element is pushed with the parse of that
\* text as children and the cursor just after that closing tag; without it,
\* the element is pushed with no children and the cursor just after the
\* opening tag.
C3_OpenStep(rawTextToo) ==
    pc = "parse" /\ stack /= <<>> /\ AtPairable(Top)
        /\ (rawTextToo \/ TagAt(Top).name /= RawTextName) =>
        LET d == Len(stack)
            t == TagAt(Top)
            close == FirstAt(Top.html, EndTagOf(t.name), t.gt + 1)
            inner == Between(Top.html, t.gt + 1, close)
        IN  IF close /= -1
            THEN \/ /\ Len(stack') = d + 1
                    /\ stack'[d + 1] = Frame(inner)
                    /\ stack'[d].index = t.gt + 1
                    /\ stack'[d].nodes = Top.nodes \o t.text
                 \/ /\ PushesOne(Top)
                    /\ Pushed.type = "element"
                    /\ Pushed.tagName = t.name
                    /\ Pushed.children = htmlToJson(inner)
                    /\ stack'[d].index = close + Len(EndTagOf(t.name))
            ELSE /\ PushesOne(Top)
                 /\ Pushed.type = "element"
                 /\ Pushed.tagName = t.name
                 /\ Pushed.children = <<>>
                 /\ stack'[d].index = t.gt + 1

\* The step that ends a recursive call: the call was on the text up to the
\* first closing tag, what it returns is the parse of that text and becomes
\* the children, and the caller resumes just after that closing tag.
C3_ReturnStep ==
    pc = "parse" /\ Len(stack) > 1 /\ ~InLoop(Top) =>
        LET d == Len(stack)
            caller == stack[d - 1]
            name == caller.newNode[1].tagName
            close == FirstAt(caller.html, EndTagOf(name), caller.index)
        IN  /\ Len(stack') = d - 1
            /\ close /= -1
            /\ Top.html = Between(caller.html, caller.index, close)
            /\ Top.nodes = htmlToJson(Top.html)
            /\ stack'[d - 1].nodes =
                  Append(caller.nodes, ElementNode(name, caller.newNode[1].attributes, Top.nodes))
            /\ stack'[d - 1].index = close + Len(EndTagOf(name))

\* C3 as stated: first-match pairing for every opening tag that is neither
\* void nor explicitly self-closed, script included.
C3_Original == [][C3_OpenStep(TRUE) /\ C3_ReturnStep]_vars

\* C3, amended: for an opening tag that is neither void, nor explicitly
\* self-closed, nor script, the children are the parse of the text up to the
\* first literal closing tag and scanning resumes just after it; with no
\* closing tag the element has no children and nothing more is consumed.
C3_FirstMatchPairing == [][C3_OpenStep(FALSE) /\ C3_ReturnStep]_vars

\* The call in progress is on a span that holds a same-named opening tag.
C3_Witness ==
    /\ pc = "parse"
    /\ Len(stack) = 2
    /\ stack[1].newNode /= <<>>
    /\ stack[1].newNode[1].tagName = <<"p">>
    /\ stack[2].html = <<"<", "p", ">">>

(***************************************************************************)
(* C4                                                                      *)
(***************************************************************************)
C4_Step ==
    pc = "parse" /\ stack /= <<>> /\ AtPairable(Top) /\ TagAt(Top).name /= RawTextName =>
        LET d == Len(stack)
            t == TagAt(Top)
            close == FirstAt(toLowerCase(Top.html), EndTagOf(t.name), t.gt + 1)
        IN  close /= -1 =>
                /\ Len(stack') = d + 1
                /\ stack'[d + 1] = Frame(Between(Top.html, t.gt + 1, close))

\* C4: an opening tag is paired with the first following closing tag whose
\* name equals its own ignoring letter case.
C4_CaseInsensitivePairing == [][C4_Step]_vars

(***************************************************************************)
(* C5                                                                      *)
(***************************************************************************)
\* At a closing tag </name> (one the caller did not take as its match: the
\* argument of a recursive call ends before the caller's closing tag).
AtStrayClosingTag(f) ==
    /\ InLoop(f)
    /\ TagAt(f).pos /= -1
    /\ TagAt(f).pos + 1 < Len(f.html)
    /\ f.html[TagAt(f).pos + 2] = "/"
    /\ TagAt(f).gt /= -1
    /\ Between(f.html, TagAt(f).pos + 2, TagAt(f).gt) /= <<>>
    /\ Range(Between(f.html, TagAt(f).pos + 2, TagAt(f).gt)) \subseteq NameChar

\* C5: a stray closing tag produces no node: the call returns what it
\* returns when the scan resumes just after the closing tag.
C5_StrayClosingTagLeavesNoNode ==
    pc = "parse" /\ stack /= <<>> /\ AtStrayClosingTag(Top) =>
        ScanLoop(Top.html, Top.index, Top.nodes)
            = ScanLoop(Top.html, TagAt(Top).gt + 1, Top.nodes \o TagAt(Top).text)

(***************************************************************************)
(* C6                                                                      *)
(***************************************************************************)
\* At an opening tag with a void name or an interior that ends with '/'.
AtVoid(f) ==
    /\ AtOpeningTag(f)
    /\ TagAt(f).name \in VoidTags \/ endsWith(TagAt(f).interior, "/")

\* The element is pushed with no children and the cursor goes just after
\* the opening tag, in the same call: what follows is parsed as siblings.
C6_ParseStep ==
    pc = "parse" /\ stack /= <<>> /\ AtVoid(Top) =>
        /\ PushesOne(Top)
        /\ Pushed.type = "element"
        /\ Pushed.tagName = TagAt(Top).name
        /\ Pushed.children = <<>>
        /\ stack'[Len(stack)].index = TagAt(Top).gt + 1

\* Every element of the result with a void name has no children, and is
\* serialized as its opening tag alone, also when it is given children.
C6_Serialized ==
    \A n \in AllNodes(result) :
        n.type = "element" /\ n.tagName \in VoidTags =>
            /\ n.children = <<>>
            /\ jsonToHtmlNode(n) = <<"<">> \o n.tagName \o AttrString(n.attributes) \o <<">">>
            /\ jsonToHtmlNode([n EXCEPT !.children = <<TextNode(<<"x">>)>>]) = jsonToHtmlNode(n)

\* C6: an element with a void tag name, or whose opening tag ends with '/',
\* has no children whatever follows it, the text after its opening tag is
\* parsed as following siblings, and jsonToHtml emits neither children nor a
\* closing tag for a void tag name.
C6_VoidElements == []C6_Serialized /\ [][C6_ParseStep]_vars

\* A void element followed by text and by a closing tag of its own name.
C6_Witness ==
    /\ pc = "parsed"
    /\ Len(result) >= 2
    /\ result[1].type = "element"
    /\ result[1].tagName = <<"b", "r">>
    /\ result[2] = TextNode(<<"x">>)
    /\ FirstAt(html, <<"<", "/", "b", "r", ">">>, 0) /= -1

(***************************************************************************)
(* C7                                                                      *)
(***************************************************************************)
C7_Step ==
    pc = "parse" /\ stack /= <<>> /\ AtPairable(Top) /\ TagAt(Top).name = RawTextName =>
        LET t == TagAt(Top)
            close == FirstAt(Top.html, EndTagOf(RawTextName), t.gt + 1)
            inner == Between(Top.html, t.gt + 1, close)
        IN  close /= -1 /\ trim(inner) /= <<>> =>
                /\ PushesOne(Top)
                /\ Pushed.type = "element"
                /\ Pushed.tagName = RawTextName
                /\ Pushed.children = <<TextNode(inner)>>
                /\ stack'[Len(stack)].index = close + Len(EndTagOf(RawTextName))

\* C7: a script element with a closing tag and an inner span that is not all
\* white space gets exactly one child, a text node holding the inner span
\* character for character; the span is not parsed.
C7_RawTextPreserved == [][C7_Step]_vars

\* A script element whose inner span is markup, kept as text.
C7_Witness ==
    /\ pc = "parsed"
    /\ \E k \in 1..Len(result) :
          result[k] = ElementNode(RawTextName, <<>>, <<TextNode(<<"<", "p", ">">>)>>)

(***************************************************************************)
(* C9                                                                      *)
(***************************************************************************)
C9_Step ==
    pc = "parse" /\ stack /= <<>> /\ InLoop(Top)
        /\ TagAt(Top).pos /= -1 /\ OccursAt(Top.html, CommentOpen, TagAt(Top).pos) =>
        LET open == TagAt(Top).pos
            close == FirstAt(Top.html, CommentClose, open)
        IN  close /= -1 =>
                /\ PushesOne(Top)
                /\ Pushed = CommentNode(trim(Between(Top.html, open + Len(CommentOpen), close)))
                /\ stack'[Len(stack)].index = close + Len(CommentClose)

\* C9: at a comment-open marker with a comment-close marker found, one
\* comment node is pushed whose content is the trimmed text strictly
\* between the end of the open marker and the start of the close marker,
\* and scanning resumes just after the close marker.
C9_CommentExtraction == [][C9_Step]_vars

(***************************************************************************)
(* C1                                                                      *)
(***************************************************************************)
RECURSIVE Normalize(_)
\* s.replace(/\s+/g, ' ') of the demo's verification, before its trim().
Normalize(s) ==
    IF s = <<>> THEN <<>>
    ELSE IF s[1] \in WhiteSpace
    THEN <<" ">> \o Normalize(SubSeq(s, RunEnd(s, 0, WhiteSpace) + 1, Len(s)))
    ELSE <<s[1]>> \o Normalize(Tail(s))

RECURSIVE WellFormedAttrs(_)
\* Attributes written  key="value"  or  key , each after one space.
WellFormedAttrs(r) ==
    \/ r = <<>>
    \/ /\ r[1] = " "
       /\ LET keyEnd == RunEnd(r, 1, NameChar)
              close == FirstAt(r, <<"\"">>, keyEnd + 2)
          IN  /\ keyEnd > 1
              /\ \/ WellFormedAttrs(SubSeq(r, keyEnd + 1, Len(r)))
                 \/ /\ OccursAt(r, <<"=", "\"">>, keyEnd)
                    /\ close /= -1
                    /\ WellFormedAttrs(SubSeq(r, close + 2, Len(r)))

RECURSIVE WellFormedFrom(_, _, _, _)
\* The document h is well formed from position i on, inside the open
\* elements `open` (innermost last), the tag names in `used` being taken:
\* closed comments, text without '<' or '>', lower-case opening tags with
\* well-formed attributes, each name used once, every element that is not
\* void closed by its own closing tag in stack order, script content raw.
WellFormedFrom(h, i, open, used) ==
    IF i >= Len(h) THEN open = <<>>
    ELSE IF h[i + 1] = ">" THEN FALSE
    ELSE IF h[i + 1] /= "<" THEN WellFormedFrom(h, i + 1, open, used)
    ELSE IF OccursAt(h, CommentOpen, i)
    THEN LET close == FirstAt(h, CommentClose, i + Len(CommentOpen))
         IN  close /= -1 /\ WellFormedFrom(h, close + Len(CommentClose), open, used)
    ELSE LET gt == FirstAt(h, <<">">>, i)
             interior == Between(h, i + 1, gt)
             nameLen == RunEnd(interior, 0, Range(LowerCase) \cup Range(Digit))
             name == SubSeq(interior, 1, nameLen)
             raw == FirstAt(h, EndTagOf(RawTextName), gt + 1)
         IN  /\ gt /= -1
             /\ interior /= <<>>
             /\ IF interior[1] = "/"
                THEN /\ open /= <<>>
                     /\ Tail(interior) = open[Len(open)]
                     /\ WellFormedFrom(h, gt + 1, SubSeq(open, 1, Len(open) - 1), used)
                ELSE /\ nameLen > 0
                     /\ name \notin used
                     /\ WellFormedAttrs(SubSeq(interior, nameLen + 1, Len(interior)))
                     /\ IF name \in VoidTags
                        THEN WellFormedFrom(h, gt + 1, open, used \cup {name})
                        ELSE IF name = RawTextName
                        THEN /\ raw /= -1
                             /\ WellFormedFrom(h, raw + Len(EndTagOf(name)), open,
                                               used \cup {name})
                        ELSE WellFormedFrom(h, gt + 1, Append(open, name), used \cup {name})

WellFormed(h) == WellFormedFrom(h, 0, <<>>, {})

\* C1: for a well-formed document with single, unique-tag, non-overlapping
\* elements, the serialization of its parse equals the document once every
\* run of white space is collapsed to one space and both are trimmed.
C1_RoundTrip ==
    pc \in {"serialized", "done"} /\ WellFormed(html) =>
        trim(Normalize(out)) = trim(Normalize(html))

(***************************************************************************)
(* C10                                                                     *)
(***************************************************************************)
\* C10 as stated: parsing the serialization of the parsed tree gives the
\* same tree, for every input.
C10_Original == pc = "done" => reparsed = result

RECURSIVE NoAdjacentText(_)
\* No two text nodes are neighbours, at any level.
NoAdjacentText(nodes) ==
    /\ \A k \in 1..(Len(nodes) - 1) :
          ~(nodes[k].type = "text" /\ nodes[k + 1].type = "text")
    /\ \A k \in 1..Len(nodes) :
          nodes[k].type = "element" => NoAdjacentText(nodes[k].children)

\* No element has a descendant element of its own tag name.
NoSameNameInside(nodes) ==
    \A n \in AllNodes(nodes) :
        n.type = "element" =>
            \A m \in AllNodes(n.children) : m.type = "element" => m.tagName /= n.tagName

\* No attribute value holds a double quote.
NoQuoteInValue(nodes) ==
    \A n \in AllNodes(nodes) :
        n.type = "element" =>
            \A k \in 1..Len(n.attributes) : "\"" \notin Range(n.attributes[k].value)

Reparsable(nodes) ==
    NoAdjacentText(nodes) /\ NoSameNameInside(nodes) /\ NoQuoteInValue(nodes)

\* C10, amended: for every input whose parsed tree has no two neighbouring
\* text nodes, no element with a descendant element of its own tag name and
\* no attribute value holding a double quote, parsing the serialization of
\* the tree gives the same tree.
C10_ReparseStable == pc = "done" /\ Reparsable(result) => reparsed = result

\* A tree with nested elements, an attribute value, a void element and
\* text that is parsed back from its serialization.
C10_Witness ==
    /\ pc = "done"
    /\ Reparsable(result)
    /\ \E n \in AllNodes(result) : n.type = "element" /\ n.tagName \in VoidTags
    /\ \E n \in AllNodes(result) : n.type = "element" /\ n.children /= <<>>

(***************************************************************************)
(* C8                                                                      *)
(***************************************************************************)
RECURSIVE AttrMatches(_, _)
\* The matches of attrRegex in s from position `from` on, left to right.
AttrMatches(s, from) ==
    IF AttrExec(s, from).found
    THEN <<AttrExec(s, from)>> \o AttrMatches(s, AttrExec(s, from).end)
    ELSE <<>>

\* C8: the mapping has one key per distinct identifier matched, mapped to
\* the quoted value of the identifier's last occurrence, or to the empty
\* string when that occurrence has none.
C8_OneKeyPerIdentifier ==
    pc = "returned" =>
        LET ms == AttrMatches(tagString, 0)
        IN  /\ KeysOf(attributes) = {ms[k].key : k \in 1..Len(ms)}
            /\ \A k \in 1..Len(ms) :
                  (\A j \in (k + 1)..Len(ms) : ms[j].key /= ms[k].key) =>
                      /\ HasKey(attributes, ms[k].key)
                      /\ GetKey(attributes, ms[k].key) = ms[k].value

====
